---- MODULE Spec2Model ----
(***************************************************************************)
(* BlackRoad Digital Identity (digital_identity.py): the four tables of    *)
(* the store (identities, documents, kyc_requests, audit_log) and the      *)
(* public operations over them, one call at a time.                        *)
(*                                                                         *)
(* Generated identifiers (uuid4) are modelled by the row's position in its *)
(* table: rows are never deleted, so a position names one row for ever.    *)
(* Timestamps (datetime.utcnow().isoformat()) are modelled by the value of *)
(* a clock; ISO strings of one format compare as the instants they encode. *)
(* An operation is an operator from the store to [st, raised, ret]: the    *)
(* store it leaves, the exception it raises ("none" when it returns) and   *)
(* the value it returns. The model is of the tables: connections and the   *)
(* locks SQLite takes on the file are not part of it.                      *)
(***************************************************************************)
EXTENDS Integers, Sequences, FiniteSets, TLC

VARIABLES identities, documents, kyc_requests, audit_log, now, steps, callers

vars == <<identities, documents, kyc_requests, audit_log, now, steps, callers>>

(* ------------------------------ bounds -------------------------------- *)

\* Steps taken after the initial store: logged calls and ticks of the clock.
MaxSteps == 2

\* Callers that run process_kyc at the same time, one call each.
MaxCallers == 2

(* ------------------------------ enums --------------------------------- *)

VerificationLevel == {"unverified", "basic", "standard", "enhanced"}

DocType == {"passport", "license", "national_id", "utility_bill"}

KYCStatus == {"pending", "processing", "approved", "rejected"}

IdentityStatus == {"active", "revoked", "expired", "suspended"}

\* timedelta(days=365*5), in clock units.
Lifetime == 1

(* ------------------------------ inputs -------------------------------- *)

Emails == {"a@example.com", "b@example.com"}

\* requested_level is written to the table as given when it is no enum member.
LevelInputs == VerificationLevel \cup {"gold"}

DocTypeInputs == {"passport", "license"}

(* ------------------------------ store --------------------------------- *)

Empty ==
  [identities |-> <<>>, documents |-> <<>>, kyc_requests |-> <<>>,
   audit_log |-> <<>>, now |-> 0]

St ==
  [identities |-> identities, documents |-> documents,
   kyc_requests |-> kyc_requests, audit_log |-> audit_log, now |-> now]

Returns(st, value) == [st |-> st, raised |-> "none", ret |-> value]

Raises(st, exception) == [st |-> st, raised |-> exception, ret |-> "none"]

\* _log_action keeping one entry per identity: the new entry replaces the
\* identity's earlier entries.
LogActionLatestOnly(st, identity_id, action, details) ==
  [st EXCEPT !.audit_log =
     Append(SelectSeq(@, LAMBDA e : e.identity_id # identity_id),
            [identity_id |-> identity_id, action |-> action,
             details |-> details, timestamp |-> st.now])]

_log_action(st, identity_id, action, details) ==
  [st EXCEPT !.audit_log = Append(@,
     [identity_id |-> identity_id, action |-> action, details |-> details,
      timestamp |-> st.now])]

(* ---------------------------- operations ------------------------------ *)

\* create_identity on a table whose holder_email column is not UNIQUE.
CreateIdentityAnyEmail(st, email) ==
  LET identity_id == Len(st.identities) + 1
      st1 == [st EXCEPT !.identities = Append(@,
                [holder_email |-> email,
                 verification_level |-> "unverified",
                 status |-> "active",
                 issued_at |-> st.now,
                 expires_at |-> st.now + Lifetime])]
  IN Returns(_log_action(st1, identity_id, "CREATE_IDENTITY", <<email>>),
             identity_id)

create_identity(st, email) ==
  IF \E i \in DOMAIN st.identities : st.identities[i].holder_email = email
  THEN Raises(st, "IntegrityError")
  ELSE LET identity_id == Len(st.identities) + 1
           st1 == [st EXCEPT !.identities = Append(@,
                     [holder_email |-> email,
                      verification_level |-> "unverified",
                      status |-> "active",
                      issued_at |-> st.now,
                      expires_at |-> st.now + Lifetime])]
       IN Returns(_log_action(st1, identity_id, "CREATE_IDENTITY", <<email>>),
                  identity_id)

submit_document(st, identity_id, doc_type) ==
  IF identity_id \notin DOMAIN st.identities
  THEN Raises(st, "ValueError")
  ELSE LET doc_id == Len(st.documents) + 1
           st1 == [st EXCEPT !.documents = Append(@,
                     [identity_id |-> identity_id, doc_type |-> doc_type,
                      verified |-> FALSE, verified_at |-> -1])]
       IN Returns(_log_action(st1, identity_id, "SUBMIT_DOCUMENT", <<doc_type>>),
                  doc_id)

\* verify_document selecting the document by doc_id alone.
VerifyDocumentAnyOwner(st, identity_id, doc_id) ==
  IF doc_id \notin DOMAIN st.documents
  THEN Raises(st, "ValueError")
  ELSE LET st1 == [st EXCEPT !.documents[doc_id].verified = TRUE,
                             !.documents[doc_id].verified_at = st.now]
       IN Returns(_log_action(st1, identity_id, "VERIFY_DOCUMENT", <<doc_id>>),
                  TRUE)

verify_document(st, identity_id, doc_id) ==
  IF ~(doc_id \in DOMAIN st.documents
       /\ st.documents[doc_id].identity_id = identity_id)
  THEN Raises(st, "ValueError")
  ELSE LET st1 == [st EXCEPT !.documents[doc_id].verified = TRUE,
                             !.documents[doc_id].verified_at = st.now]
       IN Returns(_log_action(st1, identity_id, "VERIFY_DOCUMENT", <<doc_id>>),
                  TRUE)

\* The snapshot of a request that lists every document of the identity,
\* verified or not.
AllDocIds(st, identity_id) ==
  LET Ids[n \in 0..Len(st.documents)] ==
        IF n = 0 THEN <<>>
        ELSE IF st.documents[n].identity_id = identity_id
             THEN Append(Ids[n - 1], n)
             ELSE Ids[n - 1]
  IN Ids[Len(st.documents)]

\* SELECT doc_id FROM documents WHERE identity_id=? AND verified=1
VerifiedDocIds(st, identity_id) ==
  LET Ids[n \in 0..Len(st.documents)] ==
        IF n = 0 THEN <<>>
        ELSE IF st.documents[n].identity_id = identity_id
                /\ st.documents[n].verified
             THEN Append(Ids[n - 1], n)
             ELSE Ids[n - 1]
  IN Ids[Len(st.documents)]

initiate_kyc(st, identity_id, requested_level) ==
  IF identity_id \notin DOMAIN st.identities
  THEN Raises(st, "ValueError")
  ELSE LET request_id == Len(st.kyc_requests) + 1
           st1 == [st EXCEPT !.kyc_requests = Append(@,
                     [identity_id |-> identity_id,
                      requested_level |-> requested_level,
                      documents_submitted |-> VerifiedDocIds(st, identity_id),
                      status |-> "pending", notes |-> "",
                      processed_at |-> -1, created_at |-> st.now])]
       IN Returns(_log_action(st1, identity_id, "INITIATE_KYC",
                             <<requested_level>>),
                  request_id)

\* The check refusing only a request that is being processed.
NotPendingOnlyProcessing(row) == row.status = "processing"

\* row["status"] != KYCStatus.PENDING.value
NotPending(row) == row.status # "pending"

\* The first UPDATE and commit of process_kyc: the request is PROCESSING.
MarkProcessing(st, request_id) ==
  [st EXCEPT !.kyc_requests[request_id].status = "processing",
             !.kyc_requests[request_id].processed_at = st.now]

\* The identity's verified documents read again when the request is processed.
SnapshotIdsReadAgain(st, row) == VerifiedDocIds(st, row.identity_id)

\* json.loads(row["documents_submitted"]): the list initiate_kyc stored.
SnapshotIds(st, row) == row.documents_submitted

\* SELECT * FROM documents WHERE doc_id IN (doc_ids): the rows that exist,
\* each once; no row is read when doc_ids is empty.
SelectDocs(st, doc_ids) ==
  {d \in DOMAIN st.documents : \E k \in DOMAIN doc_ids : doc_ids[k] = d}

\* AllVerified without the len(docs) > 0 conjunct.
AllVerifiedOfNone(st, docs) == \A d \in docs : st.documents[d].verified

\* len(docs) > 0 and all(d["verified"] for d in docs)
AllVerified(st, docs) ==
  Cardinality(docs) > 0 /\ \A d \in docs : st.documents[d].verified

\* Primary without NATIONAL_ID.
PrimaryPassportOnly == {"passport"}

\* {DocType.PASSPORT.value, DocType.NATIONAL_ID.value}
Primary == {"passport", "national_id"}

\* _check_doc_requirements with STANDARD asking for one document.
CheckDocRequirementsStandardOne(st, level, docs) ==
  LET doc_types == {st.documents[d].doc_type : d \in docs}
  IN IF level = "basic" THEN Cardinality(docs) >= 1
     ELSE IF level = "standard" THEN Cardinality(docs) >= 1
     ELSE IF level = "enhanced"
          THEN Cardinality(docs) >= 3 /\ (Primary \cap doc_types) # {}
     ELSE TRUE

\* _check_doc_requirements refusing a level it has no rule for.
CheckDocRequirementsOtherRefused(st, level, docs) ==
  LET doc_types == {st.documents[d].doc_type : d \in docs}
  IN IF level = "basic" THEN Cardinality(docs) >= 1
     ELSE IF level = "standard" THEN Cardinality(docs) >= 2
     ELSE IF level = "enhanced"
          THEN Cardinality(docs) >= 3 /\ (Primary \cap doc_types) # {}
     ELSE FALSE

_check_doc_requirements(st, level, docs) ==
  LET doc_types == {st.documents[d].doc_type : d \in docs}
  IN IF level = "basic" THEN Cardinality(docs) >= 1
     ELSE IF level = "standard" THEN Cardinality(docs) >= 2
     ELSE IF level = "enhanced"
          THEN Cardinality(docs) >= 3 /\ (Primary \cap doc_types) # {}
     ELSE TRUE

\* A rejection that leaves the request PROCESSING.
NewStatusRejectionUnset(approved) ==
  IF approved THEN "approved" ELSE "processing"

\* new_status = KYCStatus.APPROVED.value / KYCStatus.REJECTED.value
NewStatus(approved) == IF approved THEN "approved" ELSE "rejected"

\* Decide with an approval that never lowers the level: the requested level
\* is written unless the identity already holds a higher one.
DecideKeepingHigher(st1, request_id, row) ==
  LET docs == SelectDocs(st1, SnapshotIds(st1, row))
      approved == AllVerified(st1, docs)
                  /\ _check_doc_requirements(st1, row.requested_level, docs)
      order == <<"unverified", "basic", "standard", "enhanced">>
      held == st1.identities[row.identity_id].verification_level
      higher == \E a, b \in DOMAIN order :
                  a < b /\ order[a] = row.requested_level /\ order[b] = held
      st2 == IF approved /\ ~higher
             THEN [st1 EXCEPT !.identities[row.identity_id]
                                .verification_level = row.requested_level]
             ELSE st1
  IN [st2 EXCEPT !.kyc_requests[request_id].status = NewStatus(approved),
                 !.kyc_requests[request_id].notes =
                    IF approved
                    THEN "All documents verified and requirements met."
                    ELSE "Insufficient verified documents or requirements not met.",
                 !.kyc_requests[request_id].processed_at = st1.now]

\* The decision and the second UPDATE of process_kyc, on the store st1 in
\* which the request is PROCESSING; row is the request as first read.
Decide(st1, request_id, row) ==
  LET docs == SelectDocs(st1, SnapshotIds(st1, row))
      all_verified == AllVerified(st1, docs)
      requested_level == row.requested_level
      meets_doc_requirements ==
        _check_doc_requirements(st1, requested_level, docs)
      approved == all_verified /\ meets_doc_requirements
      new_status == NewStatus(approved)
      notes == IF approved
               THEN "All documents verified and requirements met."
               ELSE "Insufficient verified documents or requirements not met."
      st2 == IF approved
             THEN [st1 EXCEPT !.identities[row.identity_id]
                                .verification_level = requested_level]
             ELSE st1
  IN [st2 EXCEPT !.kyc_requests[request_id].status = new_status,
                 !.kyc_requests[request_id].notes = notes,
                 !.kyc_requests[request_id].processed_at = st1.now]

process_kyc(st, request_id) ==
  IF request_id \notin DOMAIN st.kyc_requests
  THEN Raises(st, "ValueError")
  ELSE
    LET row == st.kyc_requests[request_id] IN
    IF NotPending(row)
    THEN Raises(st, "ValueError")
    ELSE
      LET st3 == Decide(MarkProcessing(st, request_id), request_id, row)
          new_status == st3.kyc_requests[request_id].status
          st4 == _log_action(st3, row.identity_id, "PROCESS_KYC",
                             <<request_id, new_status>>)
      IN \* VerificationLevel(requested_level) raises for a non-member, after
         \* both commits and the audit entry
         IF row.requested_level \in VerificationLevel
         THEN Returns(st4, new_status)
         ELSE Raises(st4, "ValueError")

\* revoke_identity refusing an identity that is already REVOKED.
RevokeIdentityOnce(st, identity_id) ==
  IF identity_id \notin DOMAIN st.identities
  THEN Raises(st, "ValueError")
  ELSE IF st.identities[identity_id].status = "revoked"
  THEN Raises(st, "ValueError")
  ELSE LET st1 == [st EXCEPT !.identities[identity_id].status = "revoked"]
       IN Returns(_log_action(st1, identity_id, "REVOKE_IDENTITY", <<>>), TRUE)

revoke_identity(st, identity_id) ==
  IF identity_id \notin DOMAIN st.identities
  THEN Raises(st, "ValueError")
  ELSE LET st1 == [st EXCEPT !.identities[identity_id].status = "revoked"]
       IN Returns(_log_action(st1, identity_id, "REVOKE_IDENTITY", <<>>), TRUE)

suspend_identity(st, identity_id) ==
  IF identity_id \notin DOMAIN st.identities
  THEN Raises(st, "ValueError")
  ELSE LET st1 == [st EXCEPT !.identities[identity_id].status = "suspended"]
       IN Returns(_log_action(st1, identity_id, "SUSPEND_IDENTITY", <<>>), TRUE)

\* reactivate_identity without the check of the current status.
ReactivateIdentityUnchecked(st, identity_id) ==
  IF identity_id \notin DOMAIN st.identities
  THEN Raises(st, "ValueError")
  ELSE LET st1 == [st EXCEPT !.identities[identity_id].status = "active"]
       IN Returns(_log_action(st1, identity_id, "REACTIVATE_IDENTITY", <<>>),
                  TRUE)

reactivate_identity(st, identity_id) ==
  IF identity_id \notin DOMAIN st.identities
  THEN Raises(st, "ValueError")
  ELSE IF st.identities[identity_id].status # "suspended"
  THEN Raises(st, "ValueError")
  ELSE LET st1 == [st EXCEPT !.identities[identity_id].status = "active"]
       IN Returns(_log_action(st1, identity_id, "REACTIVATE_IDENTITY", <<>>),
                  TRUE)

\* The rows of a sweep that ignores the status: every identity past expiry.
ExpiringAnyStatus(st) ==
  {i \in DOMAIN st.identities : st.identities[i].expires_at < st.now}

\* The rows the sweep's UPDATE matches.
Expiring(st) ==
  {i \in DOMAIN st.identities :
     st.identities[i].expires_at < st.now /\ st.identities[i].status = "active"}

expire_old_identities(st) ==
  Returns([st EXCEPT !.identities =
             [i \in DOMAIN st.identities |->
                IF i \in Expiring(st)
                THEN [st.identities[i] EXCEPT !.status = "expired"]
                ELSE st.identities[i]]],
          Cardinality(Expiring(st)))

(* --------------------------- initial stores --------------------------- *)

\* One recorded call: the operation and its arguments.
Apply(st, c) ==
  CASE c[1] = "create_identity" -> create_identity(st, c[2]).st
    [] c[1] = "submit_document" -> submit_document(st, c[2], c[3]).st
    [] c[1] = "verify_document" -> verify_document(st, c[2], c[3]).st
    [] c[1] = "initiate_kyc" -> initiate_kyc(st, c[2], c[3]).st
    [] c[1] = "tick" -> [st EXCEPT !.now = @ + 1]

\* The store after the calls of a script, made in order.
RECURSIVE Run(_, _)
Run(st, script) ==
  IF script = <<>> THEN st ELSE Run(Apply(st, Head(script)), Tail(script))

\* Identity 1 is created and three documents of the given types submitted.
ThreeDocs(t1, t2, t3) ==
  << <<"create_identity", "a@example.com">>,
     <<"submit_document", 1, t1>>, <<"submit_document", 1, t2>>,
     <<"submit_document", 1, t3>> >>

VerifyTwo == << <<"verify_document", 1, 1>>, <<"verify_document", 1, 2>> >>

VerifyThree == VerifyTwo \o << <<"verify_document", 1, 3>> >>

\* Call sequences that build the stores the runs start from: the empty store,
\* identities holding one to three documents of several types, with none,
\* some or all verified, with and without pending requests, at several times.
Scripts ==
  { <<>>,
    \* one verified passport
    << <<"create_identity", "a@example.com">>,
       <<"submit_document", 1, "passport">>,
       <<"verify_document", 1, 1>>, <<"tick">> >>,
    \* a request of every level made while no document was verified
    << <<"create_identity", "a@example.com">>,
       <<"submit_document", 1, "passport">>,
       <<"initiate_kyc", 1, "unverified">>, <<"initiate_kyc", 1, "basic">>,
       <<"initiate_kyc", 1, "standard">>, <<"initiate_kyc", 1, "enhanced">>,
       <<"initiate_kyc", 1, "gold">> >>,
    \* two verified documents of three; a standard and a basic request pending
    ThreeDocs("passport", "license", "license") \o VerifyTwo
      \o << <<"initiate_kyc", 1, "standard">>, <<"initiate_kyc", 1, "basic">>,
            <<"tick">>, <<"tick">> >>,
    \* three verified documents: with a passport, with a national id, with neither
    ThreeDocs("passport", "license", "license") \o VerifyThree,
    ThreeDocs("license", "national_id", "utility_bill") \o VerifyThree
      \o << <<"tick">>, <<"tick">> >>,
    ThreeDocs("license", "license", "license") \o VerifyThree \o << <<"tick">> >>,
    \* two identities, one verified document and one pending request each
    << <<"create_identity", "a@example.com">>,
       <<"create_identity", "b@example.com">>,
       <<"submit_document", 1, "passport">>,
       <<"submit_document", 2, "license">>,
       <<"verify_document", 1, 1>>, <<"verify_document", 2, 2>>,
       <<"initiate_kyc", 1, "basic">>, <<"initiate_kyc", 2, "standard">>,
       <<"tick">>, <<"tick">> >> }

Callers == 1..MaxCallers

\* The locals of one process_kyc call in progress: where it stands, the
\* request_id it was given, the row it read and the new_status it computed.
Idle ==
  [pc |-> "idle", request_id |-> 0, new_status |-> "none",
   row |-> [identity_id |-> 0, requested_level |-> "none",
            documents_submitted |-> <<>>, status |-> "none", notes |-> "",
            processed_at |-> -1, created_at |-> -1]]

Init ==
  \E script \in Scripts :
    LET st == Run(Empty, script) IN
      /\ identities = st.identities
      /\ documents = st.documents
      /\ kyc_requests = st.kyc_requests
      /\ audit_log = st.audit_log
      /\ now = st.now
      /\ steps = 0
      /\ callers = [w \in Callers |-> Idle]

(* ------------------------------ actions ------------------------------- *)

\* Identifiers a caller may pass: every row of the table and one unknown.
Ids(table) == 1..(Len(table) + 1)

\* One call: the store becomes the store the operation leaves. A call that
\* appends to the audit log counts as a step.
Do(res) ==
  /\ (res.st.audit_log # audit_log) => steps < MaxSteps
  /\ identities' = res.st.identities
  /\ documents' = res.st.documents
  /\ kyc_requests' = res.st.kyc_requests
  /\ audit_log' = res.st.audit_log
  /\ now' = now
  /\ steps' = IF res.st.audit_log # audit_log THEN steps + 1 ELSE steps
  /\ callers' = callers

CreateIdentity ==
  \E res \in {create_identity(St, email) : email \in Emails} : Do(res)

SubmitDocument ==
  \E i \in Ids(identities), t \in DocTypeInputs : Do(submit_document(St, i, t))

VerifyDocument ==
  \E i \in Ids(identities), d \in Ids(documents) : Do(verify_document(St, i, d))

InitiateKyc ==
  \E i \in Ids(identities), l \in LevelInputs : Do(initiate_kyc(St, i, l))

ProcessKyc == \E r \in Ids(kyc_requests) : Do(process_kyc(St, r))

RevokeIdentity == \E i \in Ids(identities) : Do(revoke_identity(St, i))

SuspendIdentity == \E i \in Ids(identities) : Do(suspend_identity(St, i))

ReactivateIdentity == \E i \in Ids(identities) : Do(reactivate_identity(St, i))

ExpireOldIdentities == \E res \in {expire_old_identities(St)} : Do(res)

\* Time passes between calls.
Tick ==
  /\ steps < MaxSteps
  /\ now' = now + 1
  /\ steps' = steps + 1
  /\ UNCHANGED <<identities, documents, kyc_requests, audit_log, callers>>

Next ==
  \/ CreateIdentity
  \/ SubmitDocument
  \/ VerifyDocument
  \/ InitiateKyc
  \/ ProcessKyc
  \/ RevokeIdentity
  \/ SuspendIdentity
  \/ ReactivateIdentity
  \/ ExpireOldIdentities
  \/ Tick

Spec == Init /\ [][Next]_vars

(* ----------------- process_kyc, statement by statement ---------------- *)

\* A commit of a call in progress: the tables become those of st.
Commit(st) ==
  /\ identities' = st.identities
  /\ documents' = st.documents
  /\ kyc_requests' = st.kyc_requests
  /\ audit_log' = st.audit_log
  /\ UNCHANGED <<now, steps>>

\* The SELECT of the request and the two checks on the row read.
RaceRead(w) ==
  \E r \in Ids(kyc_requests) :
    /\ callers[w].pc = "idle"
    /\ callers' = [callers EXCEPT ![w] =
         IF r \notin DOMAIN kyc_requests
         THEN [Idle EXCEPT !.pc = "raised", !.request_id = r]
         ELSE [Idle EXCEPT !.pc = IF NotPending(kyc_requests[r])
                                  THEN "raised" ELSE "read",
                           !.request_id = r, !.row = kyc_requests[r]]]
    /\ UNCHANGED <<identities, documents, kyc_requests, audit_log, now, steps>>

\* The first UPDATE and its commit.
RaceMark(w) ==
  /\ callers[w].pc = "read"
  /\ Commit(MarkProcessing(St, callers[w].request_id))
  /\ callers' = [callers EXCEPT ![w].pc = "marked"]

\* The documents read, the decision, the second UPDATE and its commit.
RaceDecide(w) ==
  /\ callers[w].pc = "marked"
  /\ LET st3 == Decide(St, callers[w].request_id, callers[w].row) IN
       /\ Commit(st3)
       /\ callers' = [callers EXCEPT
            ![w].pc = "decided",
            ![w].new_status = st3.kyc_requests[callers[w].request_id].status]

\* The audit entry; the call then returns, or raises at VerificationLevel().
RaceLog(w) ==
  /\ callers[w].pc = "decided"
  /\ Commit(_log_action(St, callers[w].row.identity_id, "PROCESS_KYC",
                        <<callers[w].request_id, callers[w].new_status>>))
  /\ callers' = [callers EXCEPT ![w].pc = "done"]

NextRace ==
  \/ \E w \in Callers : RaceRead(w)
  \/ \E w \in Callers : RaceMark(w)
  \/ \E w \in Callers : RaceDecide(w)
  \/ \E w \in Callers : RaceLog(w)

SpecRace == Init /\ [][NextRace]_vars

(* ---------------------------- properties ------------------------------ *)

Range(seq) == {seq[k] : k \in DOMAIN seq}

Level(st, i) == st.identities[i].verification_level

\* UNVERIFIED < BASIC < STANDARD < ENHANCED
Rank(level) ==
  CASE level = "unverified" -> 0
    [] level = "basic" -> 1
    [] level = "standard" -> 2
    [] level = "enhanced" -> 3

\* C1: an identity is created UNVERIFIED, and a step changes an identity's
\* verification_level only when the step is a process_kyc call on a request
\* of that identity that returns APPROVED; every other call, and every call
\* that raises, leaves every verification_level as it was.
C1_LevelChangesOnlyByApprovedCall ==
  [][ /\ \A i \in DOMAIN identities' \ DOMAIN identities :
           identities'[i].verification_level = "unverified"
      /\ \A i \in DOMAIN identities :
           identities'[i].verification_level # identities[i].verification_level
           => \E r \in DOMAIN kyc_requests :
                LET res == process_kyc(St, r) IN
                  /\ kyc_requests[r].identity_id = i
                  /\ St' = res.st
                  /\ res.raised = "none"
                  /\ res.ret = "approved" ]_vars

\* C2: no step moves an identity's verification_level to a lower level in
\* the order UNVERIFIED < BASIC < STANDARD < ENHANCED.
C2_LevelNeverDecreases ==
  [][ \A i \in DOMAIN identities :
        ( /\ identities[i].verification_level \in VerificationLevel
          /\ identities'[i].verification_level \in VerificationLevel )
        => Rank(identities'[i].verification_level)
             >= Rank(identities[i].verification_level) ]_vars

\* The last audit entry records that process_kyc decided request r.
LastDecided(r) ==
  /\ audit_log # <<>>
  /\ audit_log[Len(audit_log)].action = "PROCESS_KYC"
  /\ audit_log[Len(audit_log)].details[1] = r

\* The documents of a request's snapshot that are verified now.
VerifiedOf(snap) == {d \in Range(snap) : documents[d].verified}

\* C3: process_kyc on a PENDING request for BASIC (STANDARD) returns APPROVED
\* exactly when the snapshot holds at least 1 (2) documents, all verified;
\* otherwise it returns REJECTED. On APPROVED the identity's
\* verification_level is the requested level when the call returns.
C3_BasicStandardDecision ==
  \A r \in DOMAIN kyc_requests :
    LET row == kyc_requests[r]
        snap == row.documents_submitted
        need == IF row.requested_level = "basic" THEN 1 ELSE 2
        res == process_kyc(St, r)
    IN (row.status = "pending" /\ row.requested_level \in {"basic", "standard"})
       => /\ res.raised = "none"
          /\ res.ret \in {"approved", "rejected"}
          /\ res.st.kyc_requests[r].status = res.ret
          /\ (res.ret = "approved")
               <=> (Len(snap) >= need /\ VerifiedOf(snap) = Range(snap))
          /\ (res.ret = "approved")
               => Level(res.st, row.identity_id) = row.requested_level

\* process_kyc has just approved a BASIC request backed by one verified
\* document, and the identity is BASIC.
C3_Witness ==
  \E r \in DOMAIN kyc_requests :
    /\ LastDecided(r)
    /\ kyc_requests[r].status = "approved"
    /\ kyc_requests[r].requested_level = "basic"
    /\ Len(kyc_requests[r].documents_submitted) = 1
    /\ identities[kyc_requests[r].identity_id].verification_level = "basic"

\* C4: process_kyc on a PENDING request for ENHANCED returns APPROVED exactly
\* when the snapshot holds at least 3 verified documents, one of them a
\* PASSPORT or a NATIONAL_ID; so 3 verified LICENSE documents are REJECTED.
C4_EnhancedDecision ==
  \A r \in DOMAIN kyc_requests :
    LET row == kyc_requests[r]
        verified == VerifiedOf(row.documents_submitted)
        res == process_kyc(St, r)
    IN (row.status = "pending" /\ row.requested_level = "enhanced")
       => /\ res.raised = "none"
          /\ res.ret \in {"approved", "rejected"}
          /\ res.st.kyc_requests[r].status = res.ret
          /\ (res.ret = "approved")
               <=> ( /\ Cardinality(verified) >= 3
                     /\ \E d \in verified :
                          documents[d].doc_type \in {"passport", "national_id"} )

\* process_kyc has just rejected an ENHANCED request whose snapshot is three
\* verified LICENSE documents.
C4_Witness ==
  \E r \in DOMAIN kyc_requests :
    /\ LastDecided(r)
    /\ kyc_requests[r].status = "rejected"
    /\ kyc_requests[r].requested_level = "enhanced"
    /\ Cardinality(VerifiedOf(kyc_requests[r].documents_submitted)) = 3
    /\ \A d \in Range(kyc_requests[r].documents_submitted) :
         documents[d].doc_type = "license"

\* C5: whatever its requested level, a PENDING request whose snapshot was
\* taken while the identity had no verified document is REJECTED by
\* process_kyc, which leaves every verification_level unchanged, whatever
\* was submitted or verified since.
C5_EmptySnapshotRejected ==
  \* a pending request of the store whose snapshot is empty
  /\ \A r \in DOMAIN kyc_requests :
       LET row == kyc_requests[r]
           res == process_kyc(St, r)
       IN (row.status = "pending" /\ row.documents_submitted = <<>>)
          => /\ res.st.kyc_requests[r].status = "rejected"
             /\ \A i \in DOMAIN identities : Level(res.st, i) = Level(St, i)
  \* a request made now for an identity with no verified document, processed
  \* at once or after a document of the identity has been verified
  /\ \A i \in DOMAIN identities, l \in LevelInputs :
       LET made == initiate_kyc(St, i, l)
           later == {made.st} \cup {verify_document(made.st, i, d).st :
                                      d \in DOMAIN documents}
       IN VerifiedDocIds(St, i) = <<>>
          => \A st \in later :
               /\ process_kyc(st, made.ret).st.kyc_requests[made.ret].status
                    = "rejected"
               /\ \A j \in DOMAIN identities :
                    Level(process_kyc(st, made.ret).st, j) = Level(St, j)

\* process_kyc has just rejected a request of an unrecognized level that was
\* made with no verified document; the identity's document was verified
\* after the request was made, and the identity is still UNVERIFIED.
C5_Witness ==
  \E r \in DOMAIN kyc_requests :
    /\ LastDecided(r)
    /\ kyc_requests[r].status = "rejected"
    /\ kyc_requests[r].requested_level = "gold"
    /\ kyc_requests[r].documents_submitted = <<>>
    /\ \E d \in DOMAIN documents :
         /\ documents[d].identity_id = kyc_requests[r].identity_id
         /\ documents[d].verified
    /\ identities[kyc_requests[r].identity_id].verification_level = "unverified"

\* The PROCESS_KYC audit entries written for request r.
Decisions(r) ==
  {k \in DOMAIN audit_log :
     audit_log[k].action = "PROCESS_KYC" /\ audit_log[k].details[1] = r}

\* C6: process_kyc on a request that is not PENDING raises and leaves the
\* whole store (the request's status, notes and processed_at, every
\* verification_level, the audit log) as it was; no request is decided twice.
C6_NonPendingNotReprocessed ==
  /\ \A r \in DOMAIN kyc_requests :
       kyc_requests[r].status # "pending"
       => /\ process_kyc(St, r).raised = "ValueError"
          /\ process_kyc(St, r).st = St
  \* the store process_kyc commits before it decides: the request PROCESSING
  /\ \A r \in DOMAIN kyc_requests :
       kyc_requests[r].status = "pending"
       => /\ process_kyc(MarkProcessing(St, r), r).raised = "ValueError"
          /\ process_kyc(MarkProcessing(St, r), r).st = MarkProcessing(St, r)
  /\ \A r \in DOMAIN kyc_requests : Cardinality(Decisions(r)) <= 1

\* A request has been decided, and processing it again raises.
C6_Witness ==
  \E r \in DOMAIN kyc_requests :
    /\ kyc_requests[r].status \in {"approved", "rejected"}
    /\ Cardinality(Decisions(r)) = 1
    /\ process_kyc(St, r).raised = "ValueError"

\* C7: a request is created PENDING; its status changes only from PENDING,
\* through PROCESSING, to APPROVED or REJECTED within one process_kyc call;
\* an APPROVED or REJECTED request keeps its status, and no request is
\* PROCESSING between calls.
C7_RequestStatusMonotonic ==
  /\ [](\A r \in DOMAIN kyc_requests : kyc_requests[r].status # "processing")
  /\ [][ \A r \in DOMAIN kyc_requests' :
           IF r \notin DOMAIN kyc_requests
           THEN kyc_requests'[r].status = "pending"
           ELSE \/ kyc_requests'[r].status = kyc_requests[r].status
                \/ /\ kyc_requests[r].status = "pending"
                   /\ kyc_requests'[r].status \in {"approved", "rejected"}
                   /\ MarkProcessing(St, r).kyc_requests[r].status = "processing"
                   /\ St' = process_kyc(St, r).st ]_vars

\* One request has ended APPROVED and another REJECTED.
C7_Witness ==
  \E r1, r2 \in DOMAIN kyc_requests :
    /\ kyc_requests[r1].status = "approved"
    /\ kyc_requests[r2].status = "rejected"
    /\ LastDecided(r2)

\* The status process_kyc gives request r on store st.
Outcome(st, r) == process_kyc(st, r).st.kyc_requests[r].status

\* The stores one more submit_document or verify_document call can leave.
AfterDocumentCall ==
  {submit_document(St, i, t).st : i \in Ids(identities), t \in DocType}
    \cup {verify_document(St, i, d).st :
            i \in Ids(identities), d \in Ids(documents)}

\* C8: initiate_kyc stores exactly the identity's documents verified at that
\* moment, no step changes a request's documents_submitted, and a
\* submit_document or verify_document call does not change the outcome
\* process_kyc gives a pending request.
C8_SnapshotFrozen ==
  /\ [][ /\ \A r \in DOMAIN kyc_requests :
              kyc_requests'[r].documents_submitted
                = kyc_requests[r].documents_submitted
         /\ \A r \in DOMAIN kyc_requests' \ DOMAIN kyc_requests :
              Range(kyc_requests'[r].documents_submitted)
                = {d \in DOMAIN documents :
                     /\ documents[d].identity_id = kyc_requests'[r].identity_id
                     /\ documents[d].verified} ]_vars
  /\ [](\A r \in DOMAIN kyc_requests :
          kyc_requests[r].status = "pending"
          => \A st \in AfterDocumentCall : Outcome(st, r) = Outcome(St, r))

\* A BASIC request made before the identity's document was verified has
\* been rejected although the identity now holds a verified document.
C8_Witness ==
  \E r \in DOMAIN kyc_requests :
    /\ LastDecided(r)
    /\ kyc_requests[r].requested_level = "basic"
    /\ kyc_requests[r].status = "rejected"
    /\ \E d \in DOMAIN documents :
         /\ documents[d].identity_id = kyc_requests[r].identity_id
         /\ documents[d].verified
         /\ d \notin Range(kyc_requests[r].documents_submitted)

\* C9: an identity that is REVOKED or EXPIRED keeps that status in every step.
C9_TerminalStatuses ==
  [][ \A i \in DOMAIN identities :
        identities[i].status \in {"revoked", "expired"}
        => identities'[i].status = identities[i].status ]_vars

\* C10: an identity is created ACTIVE, and a step changes an identity's
\* status only as ACTIVE to SUSPENDED by suspend_identity, SUSPENDED to
\* ACTIVE by reactivate_identity, ACTIVE to REVOKED by revoke_identity or
\* ACTIVE to EXPIRED by expire_old_identities.
C10_StatusTransitions ==
  [][ /\ \A i \in DOMAIN identities' \ DOMAIN identities :
           identities'[i].status = "active"
      /\ \A i \in DOMAIN identities :
           LET old == identities[i].status
               new == identities'[i].status
           IN new # old
              => \/ /\ old = "active" /\ new = "suspended"
                    /\ St' = suspend_identity(St, i).st
                 \/ /\ old = "suspended" /\ new = "active"
                    /\ St' = reactivate_identity(St, i).st
                 \/ /\ old = "active" /\ new = "revoked"
                    /\ St' = revoke_identity(St, i).st
                 \/ /\ old = "active" /\ new = "expired"
                    /\ St' = expire_old_identities(St).st ]_vars

\* The last audit entry is for identity i with the given action.
LastEntry(st, i, action) ==
  /\ st.audit_log # <<>>
  /\ st.audit_log[Len(st.audit_log)].identity_id = i
  /\ st.audit_log[Len(st.audit_log)].action = action

\* C11: reactivate_identity returns only for an identity that is SUSPENDED,
\* which it makes ACTIVE; for an identity that is ACTIVE, REVOKED or EXPIRED,
\* and for an unknown identity, it raises and leaves the store (the status,
\* the audit log) as it was.
C11_ReactivateOnlySuspended ==
  \A i \in Ids(identities) :
    LET res == reactivate_identity(St, i) IN
      IF i \in DOMAIN identities /\ identities[i].status = "suspended"
      THEN /\ res.raised = "none"
           /\ res.st.identities[i].status = "active"
      ELSE /\ res.raised = "ValueError"
           /\ res.st = St

\* A suspended identity has just been reactivated and is ACTIVE; calling
\* reactivate_identity on it again raises.
C11_Witness ==
  \E i \in DOMAIN identities :
    /\ LastEntry(St, i, "REACTIVATE_IDENTITY")
    /\ identities[i].status = "active"
    /\ reactivate_identity(St, i).raised = "ValueError"

\* C12: revoke_identity on an existing identity returns and leaves it
\* REVOKED; a second call returns too and the identities are as after the
\* first; neither call changes a verification_level, a document or a request.
C12_RevokeTwice ==
  \A i \in DOMAIN identities :
    LET once == revoke_identity(St, i)
        twice == revoke_identity(once.st, i)
    IN /\ once.raised = "none" /\ once.ret = TRUE
       /\ once.st.identities[i].status = "revoked"
       /\ twice.raised = "none" /\ twice.ret = TRUE
       /\ twice.st.identities = once.st.identities
       /\ \A j \in DOMAIN identities :
            /\ Level(once.st, j) = Level(St, j)
            /\ j # i => once.st.identities[j] = identities[j]
       /\ once.st.documents = documents /\ twice.st.documents = documents
       /\ once.st.kyc_requests = kyc_requests
       /\ twice.st.kyc_requests = kyc_requests

\* revoke_identity has been called twice in a row on one identity, which is
\* REVOKED.
C12_Witness ==
  \E i \in DOMAIN identities :
    /\ Len(audit_log) >= 2
    /\ LastEntry(St, i, "REVOKE_IDENTITY")
    /\ audit_log[Len(audit_log) - 1].identity_id = i
    /\ audit_log[Len(audit_log) - 1].action = "REVOKE_IDENTITY"
    /\ identities[i].status = "revoked"

\* Every call a caller can make on the store, with the identity it is about
\* (0 when the call names no stored row) and the action name it logs.
Calls ==
  {[st |-> create_identity(St, e).st, raised |-> create_identity(St, e).raised,
    identity_id |-> Len(identities) + 1, action |-> "CREATE_IDENTITY"] :
     e \in Emails}
  \cup {[st |-> submit_document(St, i, t).st,
         raised |-> submit_document(St, i, t).raised,
         identity_id |-> i, action |-> "SUBMIT_DOCUMENT"] :
          i \in Ids(identities), t \in DocTypeInputs}
  \cup {[st |-> verify_document(St, c[1], c[2]).st,
         raised |-> verify_document(St, c[1], c[2]).raised,
         identity_id |-> c[1], action |-> "VERIFY_DOCUMENT"] :
          c \in Ids(identities) \X Ids(documents)}
  \cup {[st |-> initiate_kyc(St, i, l).st,
         raised |-> initiate_kyc(St, i, l).raised,
         identity_id |-> i, action |-> "INITIATE_KYC"] :
          i \in Ids(identities), l \in LevelInputs}
  \cup {[st |-> process_kyc(St, r).st, raised |-> process_kyc(St, r).raised,
         identity_id |-> IF r \in DOMAIN kyc_requests
                         THEN kyc_requests[r].identity_id ELSE 0,
         action |-> "PROCESS_KYC"] : r \in Ids(kyc_requests)}
  \cup {[st |-> revoke_identity(St, i).st,
         raised |-> revoke_identity(St, i).raised,
         identity_id |-> i, action |-> "REVOKE_IDENTITY"] :
          i \in Ids(identities)}
  \cup {[st |-> suspend_identity(St, i).st,
         raised |-> suspend_identity(St, i).raised,
         identity_id |-> i, action |-> "SUSPEND_IDENTITY"] :
          i \in Ids(identities)}
  \cup {[st |-> reactivate_identity(St, i).st,
         raised |-> reactivate_identity(St, i).raised,
         identity_id |-> i, action |-> "REACTIVATE_IDENTITY"] :
          i \in Ids(identities)}

\* C13: every call of a mutating operation that returns appends exactly one
\* audit entry, for the identity the call is about and with the operation's
\* action name, at the end of the log; expire_old_identities does so when it
\* expires at least one identity, for an identity it expired.
C13_OneEntryPerMutatingCall ==
  [][ /\ \A c \in Calls :
           (c.raised = "none" /\ St' = c.st)
           => /\ Len(audit_log') = Len(audit_log) + 1
              /\ SubSeq(audit_log', 1, Len(audit_log)) = audit_log
              /\ audit_log'[Len(audit_log')].identity_id = c.identity_id
              /\ audit_log'[Len(audit_log')].action = c.action
      /\ (Expiring(St) # {} /\ St' = expire_old_identities(St).st)
           => /\ Len(audit_log') = Len(audit_log) + 1
              /\ SubSeq(audit_log', 1, Len(audit_log)) = audit_log
              /\ audit_log'[Len(audit_log')].identity_id \in Expiring(St) ]_vars

\* C14: a call that raises leaves identities, documents, kyc_requests and
\* audit_log exactly as they were before the call, whatever the operation
\* and whatever the error.
C14_RaisingCallChangesNothing ==
  \A c \in Calls :
    c.raised # "none"
    => /\ c.st.identities = identities
       /\ c.st.documents = documents
       /\ c.st.kyc_requests = kyc_requests
       /\ c.st.audit_log = audit_log

\* C15: in every reachable state every stored identity's verification_level
\* is one of UNVERIFIED, BASIC, STANDARD, ENHANCED.
C15_LevelInEnum ==
  \A i \in DOMAIN identities :
    identities[i].verification_level \in VerificationLevel

\* C16: no step removes a document or changes its owner or its type; a
\* verified document stays verified; a document a step adds is unverified
\* and owned by an identity that exists. verify_document on a document of
\* the identity leaves it verified, also when it was verified already;
\* verify_document with an identity that does not own the document raises
\* and leaves the store, and so the document's flag, unchanged.
C16_DocumentsOnlyGetVerified ==
  /\ [][ /\ Len(documents') >= Len(documents)
         /\ \A d \in DOMAIN documents :
              /\ documents'[d].identity_id = documents[d].identity_id
              /\ documents'[d].doc_type = documents[d].doc_type
              /\ documents[d].verified => documents'[d].verified
         /\ \A d \in DOMAIN documents' \ DOMAIN documents :
              /\ ~documents'[d].verified
              /\ documents'[d].identity_id \in DOMAIN identities ]_vars
  /\ [](\A i \in Ids(identities), d \in Ids(documents) :
          LET res == verify_document(St, i, d) IN
            IF d \in DOMAIN documents /\ documents[d].identity_id = i
            THEN /\ res.raised = "none"
                 /\ res.st.documents[d].verified
                 /\ \A e \in DOMAIN documents \ {d} :
                      res.st.documents[e] = documents[e]
            ELSE /\ res.raised = "ValueError"
                 /\ res.st = St)

\* verify_document has succeeded twice in a row on one document, which is
\* verified, while verify_document for that document with another stored
\* identity raises.
C16_Witness ==
  \E d \in DOMAIN documents :
    /\ Len(audit_log) >= 2
    /\ \A k \in {Len(audit_log) - 1, Len(audit_log)} :
         /\ audit_log[k].action = "VERIFY_DOCUMENT"
         /\ audit_log[k].details = <<d>>
    /\ documents[d].verified
    /\ \E i \in DOMAIN identities :
         /\ i # documents[d].identity_id
         /\ verify_document(St, i, d).raised = "ValueError"

\* C17: no two stored identities have the same holder_email, and no step
\* removes an identity or changes its holder_email. create_identity with an
\* email a stored identity holds raises, adds no identity and appends no
\* audit entry; create_identity with a fresh email adds exactly one
\* identity, ACTIVE and UNVERIFIED, and changes no other identity.
C17_EmailUnique ==
  /\ [](\A i, j \in DOMAIN identities :
          identities[i].holder_email = identities[j].holder_email => i = j)
  /\ [][ /\ Len(identities') >= Len(identities)
         /\ \A i \in DOMAIN identities :
              identities'[i].holder_email = identities[i].holder_email ]_vars
  /\ [](\A e \in Emails :
          LET res == create_identity(St, e) IN
            IF \E i \in DOMAIN identities : identities[i].holder_email = e
            THEN /\ res.raised = "IntegrityError"
                 /\ res.st.identities = identities
                 /\ res.st.audit_log = audit_log
                 /\ res.st = St
            ELSE /\ res.raised = "none"
                 /\ Len(res.st.identities) = Len(identities) + 1
                 /\ SubSeq(res.st.identities, 1, Len(identities)) = identities
                 /\ res.st.identities[res.ret].holder_email = e
                 /\ res.st.identities[res.ret].status = "active"
                 /\ res.st.identities[res.ret].verification_level = "unverified")

\* create_identity has just added a second identity, ACTIVE and UNVERIFIED,
\* and create_identity with the email of the first raises.
C17_Witness ==
  /\ Len(identities) = 2
  /\ LastEntry(St, 2, "CREATE_IDENTITY")
  /\ identities[2].status = "active"
  /\ identities[2].verification_level = "unverified"
  /\ create_identity(St, identities[1].holder_email).raised = "IntegrityError"

\* C19: the audit log after any step has the log before the step as a
\* prefix: no entry is removed, reordered or changed in its identity,
\* action, details or timestamp.
C19_AuditLogAppendOnly ==
  [][ /\ Len(audit_log') >= Len(audit_log)
      /\ \A k \in DOMAIN audit_log : audit_log'[k] = audit_log[k] ]_vars

\* The log holds entries written at different times by different
\* operations, the last one after the clock moved.
C19_Witness ==
  /\ Len(audit_log) >= 2
  /\ audit_log[Len(audit_log)].timestamp > audit_log[1].timestamp
  /\ audit_log[Len(audit_log)].action # audit_log[1].action
  /\ steps > 0
  /\ audit_log[Len(audit_log)].timestamp = now

\* C20: process_kyc on a PENDING request whose requested level is none of
\* BASIC, STANDARD, ENHANCED (UNVERIFIED, or a string outside the enum)
\* leaves the request APPROVED exactly when its snapshot is non-empty and
\* all documents of the snapshot are verified, whatever their number and
\* types, and otherwise REJECTED; on approval the identity's
\* verification_level is the requested value.
C20_OtherLevelDecision ==
  \A r \in DOMAIN kyc_requests :
    LET row == kyc_requests[r]
        snap == row.documents_submitted
        after == process_kyc(St, r).st
    IN ( /\ row.status = "pending"
         /\ row.requested_level \notin {"basic", "standard", "enhanced"} )
       => /\ after.kyc_requests[r].status \in {"approved", "rejected"}
          /\ (after.kyc_requests[r].status = "approved")
               <=> (snap # <<>> /\ VerifiedOf(snap) = Range(snap))
          /\ (after.kyc_requests[r].status = "approved")
               => Level(after, row.identity_id) = row.requested_level
          /\ (after.kyc_requests[r].status = "rejected")
               => Level(after, row.identity_id) = Level(St, row.identity_id)

\* process_kyc has just approved a request for an unrecognized level on a
\* snapshot of one verified document, and the identity holds that level.
C20_Witness ==
  \E r \in DOMAIN kyc_requests :
    /\ LastDecided(r)
    /\ kyc_requests[r].status = "approved"
    /\ kyc_requests[r].requested_level = "gold"
    /\ Len(kyc_requests[r].documents_submitted) = 1
    /\ identities[kyc_requests[r].identity_id].verification_level = "gold"

\* The calls in progress or finished that were given request r and passed
\* the PENDING check.
Passed(r) ==
  {w \in Callers : callers[w].request_id = r
                   /\ callers[w].pc \in {"read", "marked", "decided", "done"}}

\* C18: process_kyc calls that interleave are not guarded against one
\* another. A call passes the check exactly when the row it read was
\* PENDING, whatever the table holds by the time it writes; each call that
\* passed marks the request PROCESSING, writes its own final status and
\* appends its own PROCESS_KYC entry, so a request has as many PROCESS_KYC
\* entries as calls that passed for it and finished.
C18_ConcurrentCallsEachDecide ==
  /\ [](\A w \in Callers :
          /\ callers[w].pc = "raised" => callers[w].row.status # "pending"
          /\ callers[w].pc \in {"read", "marked", "decided", "done"}
               => callers[w].row.status = "pending")
  /\ [](\A r \in DOMAIN kyc_requests :
          Cardinality(Decisions(r))
            = Cardinality({w \in Passed(r) : callers[w].pc = "done"}))
  /\ [][ \A w \in Callers :
           LET r == callers[w].request_id IN
             /\ (callers[w].pc = "read" /\ callers'[w].pc = "marked")
                  => kyc_requests'[r].status = "processing"
             /\ (callers[w].pc = "marked" /\ callers'[w].pc = "decided")
                  => /\ kyc_requests'[r].status = callers'[w].new_status
                     /\ callers'[w].new_status \in {"approved", "rejected"} ]_vars

\* Two calls read the same PENDING request before either marked it
\* PROCESSING; both have finished, the request is APPROVED and the log holds
\* two PROCESS_KYC entries for it.
C18_Witness ==
  \E r \in DOMAIN kyc_requests :
    /\ Cardinality({w \in Passed(r) : callers[w].pc = "done"}) = 2
    /\ Cardinality(Decisions(r)) = 2
    /\ kyc_requests[r].status = "approved"

\* C21: expire_old_identities sets to EXPIRED exactly the identities that
\* are ACTIVE with expires_at strictly before now and returns how many it
\* changed; it raises nothing and leaves every other identity (SUSPENDED,
\* REVOKED or EXPIRED, past expiry or not, and ACTIVE with expires_at >= now),
\* every other field of an identity it expires, every document and every
\* KYC request as they were.
C21_ExpireSweep ==
  LET res == expire_old_identities(St)
      due == {i \in DOMAIN identities :
                identities[i].status = "active" /\ identities[i].expires_at < now}
  IN /\ res.raised = "none"
     /\ res.ret = Cardinality(due)
     /\ res.ret = Cardinality({i \in DOMAIN identities :
                                 res.st.identities[i] # identities[i]})
     /\ DOMAIN res.st.identities = DOMAIN identities
     /\ \A i \in DOMAIN identities :
          IF i \in due
          THEN res.st.identities[i] = [identities[i] EXCEPT !.status = "expired"]
          ELSE res.st.identities[i] = identities[i]
     /\ res.st.documents = documents
     /\ res.st.kyc_requests = kyc_requests

\* The sweep has expired one identity and left alone another that is
\* SUSPENDED and past its expiry; a further sweep changes nothing.
C21_Witness ==
  \E i, j \in DOMAIN identities :
    /\ identities[i].status = "expired"
    /\ identities[i].expires_at < now
    /\ identities[j].status = "suspended"
    /\ identities[j].expires_at < now
    /\ expire_old_identities(St).ret = 0
    /\ expire_old_identities(St).st = St

\* The audit entries of approvals of requests of identity i, in call order.
Approvals(i) ==
  SelectSeq(audit_log,
            LAMBDA e : /\ e.action = "PROCESS_KYC"
                       /\ e.identity_id = i
                       /\ e.details[2] = "approved")

\* C22: when calls are made one after another, an identity's
\* verification_level is the requested level of the request of that
\* identity that was approved last, and UNVERIFIED when none of its requests
\* was approved; processing a request changes the verification_level of no
\* identity but the request's own.
C22_LevelIsLastApproved ==
  /\ \A i \in DOMAIN identities :
       LET approvals == Approvals(i) IN
         IF approvals = <<>>
         THEN identities[i].verification_level = "unverified"
         ELSE identities[i].verification_level
                = kyc_requests[approvals[Len(approvals)].details[1]]
                    .requested_level
  /\ \A r \in DOMAIN kyc_requests, j \in DOMAIN identities :
       j # kyc_requests[r].identity_id
       => Level(process_kyc(St, r).st, j) = Level(St, j)

\* Two requests of one identity were approved one after the other, the
\* second for a lower level than the first, and the identity holds the
\* level of the second.
C22_Witness ==
  \E i \in DOMAIN identities :
    LET approvals == Approvals(i) IN
      /\ Len(approvals) = 2
      /\ kyc_requests[approvals[1].details[1]].requested_level = "standard"
      /\ kyc_requests[approvals[2].details[1]].requested_level = "basic"
      /\ identities[i].verification_level = "basic"

\* C23: every id in a request's documents_submitted names a stored document
\* that belongs to the request's identity and is verified now, each id once;
\* so for a request with a non-empty snapshot process_kyc reads every
\* document of the snapshot and its all_verified is true: such a request is
\* decided by the document requirements of its level alone.
C23_SnapshotDocsVerified ==
  \A r \in DOMAIN kyc_requests :
    LET row == kyc_requests[r]
        snap == row.documents_submitted
        docs == SelectDocs(St, SnapshotIds(St, row))
    IN /\ \A k \in DOMAIN snap :
            /\ snap[k] \in DOMAIN documents
            /\ documents[snap[k]].identity_id = row.identity_id
            /\ documents[snap[k]].verified
            /\ \A l \in DOMAIN snap : snap[l] = snap[k] => l = k
       /\ snap # <<>>
            => /\ Cardinality(docs) = Len(snap)
               /\ AllVerified(St, docs)
       /\ (snap # <<>> /\ row.status = "pending")
            => (process_kyc(St, r).st.kyc_requests[r].status = "approved"
                  <=> _check_doc_requirements(St, row.requested_level, docs))

\* process_kyc has just rejected a request whose snapshot is non-empty and
\* whose documents are all verified: it asked for STANDARD with one document.
C23_Witness ==
  \E r \in DOMAIN kyc_requests :
    /\ LastDecided(r)
    /\ kyc_requests[r].status = "rejected"
    /\ kyc_requests[r].requested_level = "standard"
    /\ Len(kyc_requests[r].documents_submitted) = 1
    /\ documents[kyc_requests[r].documents_submitted[1]].verified

====
